---- MODULE Spec2Model ----
(***************************************************************************)
(* Model of rsuanalyzer: the ligand frame solver                           *)
(* (src/rsuanalyzer/calc_lig_end.py) and the two analysis scripts that     *)
(* drive the geometry engine.                                              *)
(*                                                                         *)
(* Angles are integers counting 10^-4 degree, so that 90.0001 and -0.0001  *)
(* are inputs.  Rotations are modelled by their 3x3 matrices               *)
(* (Rotation.as_matrix()), vectors by 3-tuples.  Matrix and vector entries *)
(* are exact elements of Q(sqrt2, sqrt3): the tuple <<a, b, c, d, e>> is   *)
(* the number (a + b*sqrt2 + c*sqrt3 + d*sqrt6) / 2^e, kept in lowest      *)
(* terms.  Sines and cosines of every multiple of 15 degrees lie in that   *)
(* field, so the geometry is computed without rounding on the 15-degree    *)
(* grid of theta.                                                          *)
(***************************************************************************)
EXTENDS Integers, Sequences, FiniteSets, TLC

\* ------------------------------------------------------------------------
\* Bounds of the model
\* ------------------------------------------------------------------------

\* Number of 15-degree grid steps of theta taken outside [0, 90] on each side.
GridExtra == 1

\* Longest list a call of chainvisualizer.chain returns where its result is
\* not determined.
MaxPositions == 6

\* ------------------------------------------------------------------------
\* Program constants
\* ------------------------------------------------------------------------

ThetaMin == 0
ThetaMax == 90
BondAngle == 60
HalfTurn == 180
RangeStart == 0
RangeStop == 91
RangeStep == 1
DELTA_ == 103
THETA == 0
DELTA == 87
NumLigColors == 5

LigTypes == {"RR", "RL", "LR", "LL"}

\* Units of theta per degree, and the grid step of theta in degrees.
DegUnit == 10 ^ 4
GridStep == 90 \div 6

\* ------------------------------------------------------------------------
\* Exact arithmetic in Q(sqrt2, sqrt3)
\* ------------------------------------------------------------------------

Pow2(n) == 2 ^ n

AllEven(x) == \A i \in 1..4 : x[i] % 2 = 0

RECURSIVE Norm(_)
Norm(x) ==
    IF x[5] > 0 /\ AllEven(x)
    THEN Norm(<<x[1] \div 2, x[2] \div 2, x[3] \div 2, x[4] \div 2, x[5] - 1>>)
    ELSE x

FromInt(n) == <<n, 0, 0, 0, 0>>
Zero == FromInt(0)
One == FromInt(1)

Neg(x) == <<0 - x[1], 0 - x[2], 0 - x[3], 0 - x[4], x[5]>>

Add(x, y) ==
    LET e == IF x[5] > y[5] THEN x[5] ELSE y[5]
        p == Pow2(e - x[5])
        q == Pow2(e - y[5])
    IN Norm(<<x[1] * p + y[1] * q, x[2] * p + y[2] * q,
              x[3] * p + y[3] * q, x[4] * p + y[4] * q, e>>)

Mul(x, y) ==
    Norm(<<x[1] * y[1] + 2 * x[2] * y[2] + 3 * x[3] * y[3] + 6 * x[4] * y[4],
           x[1] * y[2] + x[2] * y[1] + 3 * (x[3] * y[4] + x[4] * y[3]),
           x[1] * y[3] + x[3] * y[1] + 2 * (x[2] * y[4] + x[4] * y[2]),
           x[1] * y[4] + x[4] * y[1] + x[2] * y[3] + x[3] * y[2],
           x[5] + y[5]>>)

\* cos(15 k degrees) for k = 0..6, indexed from 1.
CosTab ==
    << <<1, 0, 0, 0, 0>>,      \* cos 0  = 1
       <<0, 1, 0, 1, 2>>,      \* cos 15 = (sqrt6 + sqrt2) / 4
       <<0, 0, 1, 0, 1>>,      \* cos 30 = sqrt3 / 2
       <<0, 1, 0, 0, 1>>,      \* cos 45 = sqrt2 / 2
       <<1, 0, 0, 0, 1>>,      \* cos 60 = 1 / 2
       <<0, -1, 0, 1, 2>>,     \* cos 75 = (sqrt6 - sqrt2) / 4
       <<0, 0, 0, 0, 0>> >>    \* cos 90 = 0

\* cos of k grid steps, any integer k.
CosGrid(k) ==
    LET m == k % 24
    IN IF m <= 6 THEN CosTab[m + 1]
       ELSE IF m <= 12 THEN Neg(CosTab[12 - m + 1])
       ELSE IF m <= 18 THEN Neg(CosTab[m - 12 + 1])
       ELSE CosTab[24 - m + 1]

Cos(angle) == CosGrid(angle \div (GridStep * DegUnit))
Sin(angle) == CosGrid((angle \div (GridStep * DegUnit)) - 6)

\* ------------------------------------------------------------------------
\* Vectors and rotations (numpy arrays, scipy Rotation)
\* ------------------------------------------------------------------------

VecAdd(u, v) == <<Add(u[1], v[1]), Add(u[2], v[2]), Add(u[3], v[3])>>

Dot(u, v) == Add(Add(Mul(u[1], v[1]), Mul(u[2], v[2])), Mul(u[3], v[3]))

NormSq(v) == Dot(v, v)

\* Rotation.__mul__: p * q is the rotation q followed by p, matrix P.Q
Col(q, j) == <<q[1][j], q[2][j], q[3][j]>>
RotMul(p, q) ==
    << <<Dot(p[1], Col(q, 1)), Dot(p[1], Col(q, 2)), Dot(p[1], Col(q, 3))>>,
       <<Dot(p[2], Col(q, 1)), Dot(p[2], Col(q, 2)), Dot(p[2], Col(q, 3))>>,
       <<Dot(p[3], Col(q, 1)), Dot(p[3], Col(q, 2)), Dot(p[3], Col(q, 3))>> >>

\* Rotation.apply
RotApply(p, v) == <<Dot(p[1], v), Dot(p[2], v), Dot(p[3], v)>>

\* Rotation.from_euler(axis, angle, degrees=True) for a single axis
FromEuler(axis, angle) ==
    LET c == Cos(angle)
        s == Sin(angle)
    IN IF axis = "x"
       THEN << <<One, Zero, Zero>>, <<Zero, c, Neg(s)>>, <<Zero, s, c>> >>
       ELSE << <<c, Neg(s), Zero>>, <<s, c, Zero>>, <<Zero, Zero, One>> >>

\* n degrees in the unit of theta
Deg(n) == n * DegUnit

\* Optional values: <<>> is None, <<v>> is the value v.
None == <<>>
Some(v) == <<v>>

\* ------------------------------------------------------------------------
\* The functions of calc_lig_end.py
\* ------------------------------------------------------------------------

\* raise ValueError(f"Invalid <what>: ...") in function fn
ValueError(what, fn) == [type |-> "ValueError", what |-> what, in |-> fn]

\* lig_type_to_signs with the pairs of RL and LR exchanged
lig_type_to_signs_swapped(lt) ==
    IF lt = "RR" THEN Some(<<1, 1>>)
    ELSE IF lt = "RL" THEN Some(<<-1, 1>>)
    ELSE IF lt = "LR" THEN Some(<<1, -1>>)
    ELSE IF lt = "LL" THEN Some(<<-1, -1>>)
    ELSE None

\* lig_type_to_signs: the pair (j, k) it returns, or None where it raises.
lig_type_to_signs(lt) ==
    IF lt = "RR" THEN Some(<<1, 1>>)
    ELSE IF lt = "RL" THEN Some(<<1, -1>>)
    ELSE IF lt = "LR" THEN Some(<<-1, 1>>)
    ELSE IF lt = "LL" THEN Some(<<-1, -1>>)
    ELSE None

\* calc_inner_vecs_and_rots with rot_b1b2 turned about the x axis
calc_inner_b1b2_about_x(lt, th, jk) ==
    LET j == jk[1]
        k == jk[2]
        x_ab_in_system_a == <<One, Zero, Zero>>
        rot_ab1 == FromEuler("x", j * th)
        rot_b1b2 == FromEuler("x", j * Deg(BondAngle))
        rot_b2c1 == FromEuler("x", k * th)
        x_bc_in_system_a == RotApply(RotMul(rot_ab1, rot_b1b2), <<One, Zero, Zero>>)
        rot_c1c2 == IF lt \in {"RR", "LL"}
                    THEN FromEuler("x", Deg(HalfTurn))
                    ELSE FromEuler("x", Deg(0))
    IN [x_ab_in_system_a |-> x_ab_in_system_a,
        x_bc_in_system_a |-> x_bc_in_system_a,
        rot_ab1 |-> rot_ab1,
        rot_b1b2 |-> rot_b1b2,
        rot_b2c1 |-> rot_b2c1,
        rot_c1c2 |-> rot_c1c2]

\* calc_inner_vecs_and_rots with rot_b1b2 signed by k
calc_inner_b1b2_sign_k(lt, th, jk) ==
    LET j == jk[1]
        k == jk[2]
        x_ab_in_system_a == <<One, Zero, Zero>>
        rot_ab1 == FromEuler("x", j * th)
        rot_b1b2 == FromEuler("z", k * Deg(BondAngle))
        rot_b2c1 == FromEuler("x", k * th)
        x_bc_in_system_a == RotApply(RotMul(rot_ab1, rot_b1b2), <<One, Zero, Zero>>)
        rot_c1c2 == IF lt \in {"RR", "LL"}
                    THEN FromEuler("x", Deg(HalfTurn))
                    ELSE FromEuler("x", Deg(0))
    IN [x_ab_in_system_a |-> x_ab_in_system_a,
        x_bc_in_system_a |-> x_bc_in_system_a,
        rot_ab1 |-> rot_ab1,
        rot_b1b2 |-> rot_b1b2,
        rot_b2c1 |-> rot_b2c1,
        rot_c1c2 |-> rot_c1c2]

\* calc_inner_vecs_and_rots with the half turn chosen by the first letter
calc_inner_half_turn_on_j(lt, th, jk) ==
    LET j == jk[1]
        k == jk[2]
        x_ab_in_system_a == <<One, Zero, Zero>>
        rot_ab1 == FromEuler("x", j * th)
        rot_b1b2 == FromEuler("z", j * Deg(BondAngle))
        rot_b2c1 == FromEuler("x", k * th)
        x_bc_in_system_a == RotApply(RotMul(rot_ab1, rot_b1b2), <<One, Zero, Zero>>)
        rot_c1c2 == IF lt \in {"RR", "RL"}
                    THEN FromEuler("x", Deg(HalfTurn))
                    ELSE FromEuler("x", Deg(0))
    IN [x_ab_in_system_a |-> x_ab_in_system_a,
        x_bc_in_system_a |-> x_bc_in_system_a,
        rot_ab1 |-> rot_ab1,
        rot_b1b2 |-> rot_b1b2,
        rot_b2c1 |-> rot_b2c1,
        rot_c1c2 |-> rot_c1c2]

\* The body of calc_inner_vecs_and_rots after j, k are known.
calc_inner_vecs_and_rots(lt, th, jk) ==
    LET j == jk[1]
        k == jk[2]
        x_ab_in_system_a == <<One, Zero, Zero>>
        rot_ab1 == FromEuler("x", j * th)
        rot_b1b2 == FromEuler("z", j * Deg(BondAngle))
        rot_b2c1 == FromEuler("x", k * th)
        x_bc_in_system_a == RotApply(RotMul(rot_ab1, rot_b1b2), <<One, Zero, Zero>>)
        rot_c1c2 == IF lt \in {"RR", "LL"}
                    THEN FromEuler("x", Deg(HalfTurn))
                    ELSE FromEuler("x", Deg(0))
    IN [x_ab_in_system_a |-> x_ab_in_system_a,
        x_bc_in_system_a |-> x_bc_in_system_a,
        rot_ab1 |-> rot_ab1,
        rot_b1b2 |-> rot_b1b2,
        rot_b2c1 |-> rot_b2c1,
        rot_c1c2 |-> rot_c1c2]

\* The theta check with the upper bound excluded
ThetaValid_exclusive(th) == Deg(ThetaMin) <= th /\ th < Deg(ThetaMax)

\* The two input checks of calc_lig_end.
LigTypeValid(lt) == lt \in {"RR", "RL", "LR", "LL"}
ThetaValid(th) == Deg(ThetaMin) <= th /\ th <= Deg(ThetaMax)

\* x_ac_in_system_a without the segment from A to B
x_ac_of_bc_only(vr) == vr.x_bc_in_system_a

\* rot_ac composed in the reversed order
rot_ac_of_reversed(vr) ==
    RotMul(RotMul(RotMul(vr.rot_c1c2, vr.rot_b2c1), vr.rot_b1b2), vr.rot_ab1)

\* x_ac_in_system_a and rot_ac of calc_lig_end, from the callee's dictionary.
x_ac_of(vr) == VecAdd(vr.x_ab_in_system_a, vr.x_bc_in_system_a)
rot_ac_of(vr) ==
    RotMul(RotMul(RotMul(vr.rot_ab1, vr.rot_b1b2), vr.rot_b2c1), vr.rot_c1c2)

\* ------------------------------------------------------------------------
\* Inputs
\* ------------------------------------------------------------------------

\* Ligand symbols handed to the functions: the four valid ones and others.
LigInputs == LigTypes \cup {"", "R", "rl", "FF", "RRR"}

\* theta on the 15-degree grid, from GridExtra steps below 0 to GridExtra
\* steps above 90.
GridThetas ==
    {Deg(GridStep) * n : n \in (0 - GridExtra)..(ThetaMax \div GridStep + GridExtra)}

\* The nearest representable neighbours outside the two bounds.
EdgeThetas == {Deg(ThetaMin) - 1, Deg(ThetaMax) + 1}

\* ------------------------------------------------------------------------
\* State
\* ------------------------------------------------------------------------

VARIABLES
    entry,        \* the function or script that was started
    lig_type,     \* argument lig_type
    theta,        \* argument theta, in units of 10^-4 degree
    pc,           \* the statement about to run
    stack,        \* return addresses of the pending calls
    calls,        \* names of the functions invoked by call statements, in order
    signs,        \* value returned by lig_type_to_signs
    vecs_rots,    \* value returned by calc_inner_vecs_and_rots
    result,       \* value returned by calc_lig_end
    error,        \* the exception that ended the run
    script        \* the variables of the running analysis script

vars == <<entry, lig_type, theta, pc, stack, calls, signs, vecs_rots, result,
          error, script>>

fnvars == <<lig_type, theta, stack, calls, signs, vecs_rots, result, error>>

NoScript == [name |-> "none"]

InitFn(e, lt, th, start) ==
    /\ entry = e
    /\ lig_type = lt
    /\ theta = th
    /\ pc = start
    /\ stack = <<>>
    /\ calls = <<>>
    /\ signs = None
    /\ vecs_rots = None
    /\ result = None
    /\ error = None
    /\ script = NoScript

\* ------------------------------------------------------------------------
\* calc_lig_end
\* ------------------------------------------------------------------------

\* calc_lig_end without the check of lig_type
CLE_CheckLigType_omitted ==
    /\ pc = "cle_28"
    /\ pc' = "cle_30"
    /\ UNCHANGED <<entry, lig_type, theta, stack, calls, signs, vecs_rots,
                   result, error, script>>

\* lines 28-29
CLE_CheckLigType ==
    /\ pc = "cle_28"
    /\ IF ~LigTypeValid(lig_type)
       THEN /\ error' = Some(ValueError("lig_type", "calc_lig_end"))
            /\ pc' = "raised"
       ELSE /\ pc' = "cle_30"
            /\ UNCHANGED error
    /\ UNCHANGED <<entry, lig_type, theta, stack, calls, signs, vecs_rots,
                   result, script>>

\* lines 30-31
CLE_CheckTheta ==
    /\ pc = "cle_30"
    /\ IF ~ThetaValid(theta)
       THEN /\ error' = Some(ValueError("theta", "calc_lig_end"))
            /\ pc' = "raised"
       ELSE /\ pc' = "cle_33"
            /\ UNCHANGED error
    /\ UNCHANGED <<entry, lig_type, theta, stack, calls, signs, vecs_rots,
                   result, script>>

\* line 33, the call
CLE_CallInner ==
    /\ pc = "cle_33"
    /\ calls' = Append(calls, "calc_inner_vecs_and_rots")
    /\ stack' = <<"cle_35">> \o stack
    /\ pc' = "inner_77"
    /\ UNCHANGED <<entry, lig_type, theta, signs, vecs_rots, result, error,
                   script>>

\* lines 35-40
CLE_Compose ==
    /\ pc = "cle_35"
    /\ result' = Some(<<x_ac_of(vecs_rots[1]), rot_ac_of(vecs_rots[1])>>)
    /\ pc' = "done"
    /\ UNCHANGED <<entry, lig_type, theta, stack, calls, signs, vecs_rots,
                   error, script>>

\* ------------------------------------------------------------------------
\* calc_inner_vecs_and_rots
\* ------------------------------------------------------------------------

\* line 77, the call
Inner_CallSigns ==
    /\ pc = "inner_77"
    /\ calls' = Append(calls, "lig_type_to_signs")
    /\ stack' = <<"inner_79">> \o stack
    /\ pc' = "signs_114"
    /\ UNCHANGED <<entry, lig_type, theta, signs, vecs_rots, result, error,
                   script>>

\* lines 79-100, and the return to the caller
Inner_Build ==
    /\ pc = "inner_79"
    /\ vecs_rots' = Some(calc_inner_vecs_and_rots(lig_type, theta, signs[1]))
    /\ IF stack = <<>>
       THEN pc' = "done" /\ UNCHANGED stack
       ELSE pc' = Head(stack) /\ stack' = Tail(stack)
    /\ UNCHANGED <<entry, lig_type, theta, calls, signs, result, error, script>>

\* ------------------------------------------------------------------------
\* lig_type_to_signs
\* ------------------------------------------------------------------------

\* lines 114-123: return the pair to the caller, or raise through every
\* pending call (no caller has a handler).
Signs_Body ==
    /\ pc = "signs_114"
    /\ IF lig_type_to_signs(lig_type) # None
       THEN /\ signs' = lig_type_to_signs(lig_type)
            /\ IF stack = <<>>
               THEN pc' = "done" /\ UNCHANGED stack
               ELSE pc' = Head(stack) /\ stack' = Tail(stack)
            /\ UNCHANGED error
       ELSE /\ error' = Some(ValueError("lig_type", "lig_type_to_signs"))
            /\ stack' = <<>>
            /\ pc' = "raised"
            /\ UNCHANGED signs
    /\ UNCHANGED <<entry, lig_type, theta, calls, vecs_rots, result, script>>

\* ------------------------------------------------------------------------
\* analysis/rsu_vs_theta_for_specific_ring/src/syns1_delta103.py
\* ------------------------------------------------------------------------

\* Strings the scripts take apart are sequences of one-character strings.
CONF_ID_OF_RING ==
    <<"R", "R", "F", "F", "L", "L", "B", "B",
      "R", "R", "F", "F", "L", "L", "B", "B">>

\* range(start, stop, step) with step > 0, as the sequence it iterates over
PyRange(start, stop, step) ==
    LET n == IF stop > start THEN (stop - start + step - 1) \div step ELSE 0
    IN [i \in 1..n |-> start + (i - 1) * step]

\* The sweep stopping one step early
THETAS_short == PyRange(RangeStart, RangeStop - 1, RangeStep)

THETAS == PyRange(RangeStart, RangeStop, RangeStep)

\* rsuanalyzer.core.rsu.calc_rsu: a float determined by its arguments.
calc_rsu(conf_id, th, delta) ==
    [fn |-> "calc_rsu", conf_id |-> conf_id, theta |-> th, delta |-> delta]

\* pandas.DataFrame({"theta": ..., "rsu": ...})
DataFrame(theta_col, rsu_col) == [theta |-> theta_col, rsu |-> rsu_col]

\* DataFrame.to_csv(path, index=False): the header line and one line per row
to_csv(df) ==
    [header |-> <<"theta", "rsu">>,
     rows |-> [i \in 1..Len(df.theta) |-> <<df.theta[i], df.rsu[i]>>]]

InitSweep ==
    /\ entry = "syns1_delta103"
    /\ lig_type = ""
    /\ theta = 0
    /\ pc = "s1_18"
    /\ stack = <<>>
    /\ calls = <<>>
    /\ signs = None
    /\ vecs_rots = None
    /\ result = None
    /\ error = None
    /\ \E exists \in BOOLEAN :
          script = [name |-> "syns1_delta103",
                    rsu |-> <<>>,
                    rsu_calls |-> <<>>,
                    df |-> None,
                    folder_exists |-> exists,
                    csv |-> None]

\* line 18: one iteration of the list comprehension over THETAS
Sweep_Step ==
    /\ pc = "s1_18"
    /\ Len(script.rsu) < Len(THETAS)
    /\ LET th == THETAS[Len(script.rsu) + 1]
       IN script' = [script EXCEPT
                       !.rsu_calls = Append(@, <<CONF_ID_OF_RING, th, DELTA_>>),
                       !.rsu = Append(@, calc_rsu(CONF_ID_OF_RING, th, DELTA_))]
    /\ UNCHANGED <<entry, pc>>
    /\ UNCHANGED fnvars

\* lines 16-19: the list is complete, the frame is built
Sweep_DataFrame ==
    /\ pc = "s1_18"
    /\ Len(script.rsu) = Len(THETAS)
    /\ script' = [script EXCEPT !.df = Some(DataFrame(THETAS, script.rsu))]
    /\ pc' = "s1_24"
    /\ UNCHANGED entry
    /\ UNCHANGED fnvars

\* lines 24-25
Sweep_MakeDirs ==
    /\ pc = "s1_24"
    /\ IF ~script.folder_exists
       THEN script' = [script EXCEPT !.folder_exists = TRUE]
       ELSE UNCHANGED script
    /\ pc' = "s1_27"
    /\ UNCHANGED entry
    /\ UNCHANGED fnvars

\* lines 27-28
Sweep_ToCsv ==
    /\ pc = "s1_27"
    /\ script' = [script EXCEPT !.csv = Some(to_csv(script.df[1]))]
    /\ pc' = "done"
    /\ UNCHANGED entry
    /\ UNCHANGED fnvars

\* ------------------------------------------------------------------------
\* analysis/chain_visualization/src/synt1_theta0.py
\* ------------------------------------------------------------------------

CONF_ID ==
    <<"R", "L", "(", "F", "F", ")", "R", "L", "(", "F", "F", ")",
      "R", "L", "(", "F", "F", ")">>

\* str.replace(old, "") for a one-character old
ReplaceWithEmpty(str, old) == SelectSeq(str, LAMBDA ch : ch # old)

LigTokens == {<<"R", "R">>, <<"R", "L">>, <<"L", "R">>, <<"L", "L">>}

\* The 2-character tokens of a conformation string; a string of odd length
\* has none.
Tokens(str) ==
    IF Len(str) % 2 # 0
    THEN None
    ELSE Some([i \in 1..(Len(str) \div 2) |-> <<str[2 * i - 1], str[2 * i]>>])

\* The conformation is a stream of ligand tokens: even length, every token
\* one of RR, RL, LR, LL.
IsLigandStream(str) ==
    /\ Tokens(str) # None
    /\ \A i \in 1..Len(Tokens(str)[1]) : Tokens(str)[1][i] \in LigTokens

\* InvalidArgument raised by the ring walker
InvalidArgument(what, fn) == [type |-> "InvalidArgument", what |-> what, in |-> fn]

\* A metal position computed for the i-th ligand of a conformation
MetalPosition(conf_id, i, th, delta) ==
    [fn |-> "metal_position", index |-> i, conf_id |-> conf_id,
     theta |-> th, delta |-> delta]

\* The backbone fragments computed for the i-th ligand of a conformation
FragsOfLig(conf_id, i, th, delta) ==
    [fn |-> "frags_of_lig", index |-> i, conf_id |-> conf_id,
     theta |-> th, delta |-> delta]

\* chainvisualizer.chain.calc_metal_positions, the ring walker restricted to
\* the metals: one metal position per ligand token, in the order of the
\* tokens; None where it fails with InvalidArgument (odd length, a token
\* that is no ligand token, or theta outside [0, 90]).
calc_metal_positions(conf_id, th, delta) ==
    IF ~IsLigandStream(conf_id) \/ ~ThetaValid(Deg(th))
    THEN None
    ELSE Some([i \in 1..Len(Tokens(conf_id)[1]) |->
                  MetalPosition(conf_id, i, th, delta)])

\* chainvisualizer.chain.calc_carbon_positions, the ring walker restricted to
\* the backbone: the fragments of each ligand token, in the order of the
\* tokens; None where it fails with InvalidArgument.
calc_carbon_positions(conf_id, th, delta) ==
    IF ~IsLigandStream(conf_id) \/ ~ThetaValid(Deg(th))
    THEN None
    ELSE Some([i \in 1..Len(Tokens(conf_id)[1]) |->
                  FragsOfLig(conf_id, i, th, delta)])

\* What a call of calc_metal_positions can do.  On a stream of ligand tokens
\* it returns one position per token.  On any other argument the documented
\* walker fails with InvalidArgument, while the script is written for a call
\* that returns; the function's code is not among the sources, so both are
\* outcomes there, and the length of a returned list is then not determined.
MetalOutcomes(conf_id, th, delta) ==
    IF calc_metal_positions(conf_id, th, delta) # None
    THEN {calc_metal_positions(conf_id, th, delta)}
    ELSE {None} \cup
         {Some([i \in 1..n |-> MetalPosition(conf_id, i, th, delta)]) :
             n \in 0..MaxPositions}

\* What a call of calc_carbon_positions can do, in the same way.
CarbonOutcomes(conf_id, th, delta) ==
    IF calc_carbon_positions(conf_id, th, delta) # None
    THEN {calc_carbon_positions(conf_id, th, delta)}
    ELSE {None} \cup
         {Some([i \in 1..n |-> FragsOfLig(conf_id, i, th, delta)]) :
             n \in 0..MaxPositions}

\* min(a, b): the length of zip over lists of lengths a and b
Min(a, b) == IF a < b THEN a ELSE b

InitChain ==
    /\ entry = "synt1_theta0"
    /\ lig_type = ""
    /\ theta = 0
    /\ pc = "t1_18"
    /\ stack = <<>>
    /\ calls = <<>>
    /\ signs = None
    /\ vecs_rots = None
    /\ result = None
    /\ error = None
    /\ script = [name |-> "synt1_theta0",
                 replaced |-> None,
                 conf_id_without_brackets |-> None,
                 metal_args |-> None,
                 metal_positions |-> None,
                 frags_of_ligs |-> None,
                 labels |-> <<>>,
                 plotted |-> 0,
                 shown |-> FALSE]

\* line 18, first replace
Chain_StripOpen ==
    /\ pc = "t1_18"
    /\ script' = [script EXCEPT !.replaced = Some(ReplaceWithEmpty(CONF_ID, "("))]
    /\ pc' = "t1_18b"
    /\ UNCHANGED entry
    /\ UNCHANGED fnvars

\* line 18, second replace and the assignment
Chain_StripClose ==
    /\ pc = "t1_18b"
    /\ script' = [script EXCEPT !.conf_id_without_brackets =
                     Some(ReplaceWithEmpty(script.replaced[1], ")"))]
    /\ pc' = "t1_19"
    /\ UNCHANGED entry
    /\ UNCHANGED fnvars

\* line 19: the call returns the positions or raises
Chain_MetalPositions ==
    /\ pc = "t1_19"
    /\ LET conf == script.conf_id_without_brackets[1]
       IN \E positions \in MetalOutcomes(conf, THETA, DELTA) :
             IF positions = None
             THEN /\ script' = [script EXCEPT
                                  !.metal_args = Some(<<conf, THETA, DELTA>>)]
                  /\ error' = Some(InvalidArgument("conf_id", "calc_metal_positions"))
                  /\ pc' = "raised"
             ELSE /\ script' = [script EXCEPT
                                  !.metal_args = Some(<<conf, THETA, DELTA>>),
                                  !.metal_positions = positions]
                  /\ pc' = "t1_20"
                  /\ UNCHANGED error
    /\ UNCHANGED <<entry, lig_type, theta, stack, calls, signs, vecs_rots, result>>

\* line 20: the call returns the fragments or raises; line 23 makes the figure
Chain_CarbonPositions ==
    /\ pc = "t1_20"
    /\ LET conf == script.conf_id_without_brackets[1]
       IN \E frags \in CarbonOutcomes(conf, THETA, DELTA) :
             IF frags = None
             THEN /\ error' = Some(InvalidArgument("conf_id", "calc_carbon_positions"))
                  /\ pc' = "raised"
                  /\ UNCHANGED script
             ELSE /\ script' = [script EXCEPT !.frags_of_ligs = frags]
                  /\ pc' = "t1_26"
                  /\ UNCHANGED error
    /\ UNCHANGED <<entry, lig_type, theta, stack, calls, signs, vecs_rots, result>>

\* lines 26-28: the next metal is scattered and labelled i + 1
Chain_LabelMetal ==
    /\ pc = "t1_26"
    /\ Len(script.labels) < Len(script.metal_positions[1])
    /\ script' = [script EXCEPT !.labels = Append(@, Len(@) + 1)]
    /\ UNCHANGED <<entry, pc>>
    /\ UNCHANGED fnvars

\* lines 26-31: the loop over the metals ends, the colours are set
Chain_MetalsDone ==
    /\ pc = "t1_26"
    /\ Len(script.labels) = Len(script.metal_positions[1])
    /\ pc' = "t1_32"
    /\ UNCHANGED <<entry, script>>
    /\ UNCHANGED fnvars

\* lines 32-34: the next ligand of zip(frags_of_ligs, lig_colors) is plotted
Chain_PlotLigand ==
    /\ pc = "t1_32"
    /\ script.plotted < Min(Len(script.frags_of_ligs[1]), NumLigColors)
    /\ script' = [script EXCEPT !.plotted = @ + 1]
    /\ UNCHANGED <<entry, pc>>
    /\ UNCHANGED fnvars

\* lines 32-45: the loop over the ligands ends, the view is set, the figure
\* is shown
Chain_Show ==
    /\ pc = "t1_32"
    /\ script.plotted = Min(Len(script.frags_of_ligs[1]), NumLigColors)
    /\ script' = [script EXCEPT !.shown = TRUE]
    /\ pc' = "done"
    /\ UNCHANGED entry
    /\ UNCHANGED fnvars

\* ------------------------------------------------------------------------
\* Specification
\* ------------------------------------------------------------------------

Init ==
    \/ \E lt \in LigInputs, th \in GridThetas \cup EdgeThetas :
          InitFn("calc_lig_end", lt, th, "cle_28")
    \/ \E lt \in LigInputs, th \in GridThetas :
          InitFn("calc_inner_vecs_and_rots", lt, th, "inner_77")
    \/ \E lt \in LigInputs : InitFn("lig_type_to_signs", lt, 0, "signs_114")
    \/ InitSweep
    \/ InitChain

Next ==
    \/ CLE_CheckLigType
    \/ CLE_CheckTheta
    \/ CLE_CallInner
    \/ CLE_Compose
    \/ Inner_CallSigns
    \/ Inner_Build
    \/ Signs_Body
    \/ Sweep_Step
    \/ Sweep_DataFrame
    \/ Sweep_MakeDirs
    \/ Sweep_ToCsv
    \/ Chain_StripOpen
    \/ Chain_StripClose
    \/ Chain_MetalPositions
    \/ Chain_CarbonPositions
    \/ Chain_LabelMetal
    \/ Chain_MetalsDone
    \/ Chain_PlotLigand
    \/ Chain_Show

Spec == Init /\ [][Next]_vars

\* ------------------------------------------------------------------------
\* Properties
\* ------------------------------------------------------------------------

Terminal == pc \in {"done", "raised"}

\* A run that has not ended stands at a statement of the three functions
\* and holds the values that statement reads, so that it can take its step.
CanStep ==
    /\ pc \in {"cle_28", "cle_30", "cle_33", "cle_35", "inner_77", "inner_79",
               "signs_114"}
    /\ pc = "inner_79" => signs # None
    /\ pc = "cle_35" => vecs_rots # None /\ stack = <<>>
    /\ pc \in {"inner_77", "inner_79", "signs_114"} /\ stack # <<>> =>
          Head(stack) \in {"cle_35", "inner_79"}

\* Numbers and matrices written out for the properties
Half == <<1, 0, 0, 0, 1>>
HalfSqrt3 == <<0, 0, 1, 0, 1>>
Times(n, x) == Mul(FromInt(n), x)
UnitX == <<One, Zero, Zero>>
UnitY == <<Zero, One, Zero>>
UnitZ == <<Zero, Zero, One>>
Identity == <<UnitX, UnitY, UnitZ>>
HalfTurnAboutX == <<UnitX, <<Zero, FromInt(-1), Zero>>, <<Zero, Zero, FromInt(-1)>> >>

\* The signs the documentation gives: R is +1, L is -1, letter by letter.
FirstSign(lt) == IF lt \in {"RR", "RL"} THEN 1 ELSE -1
SecondSign(lt) == IF lt \in {"RR", "LR"} THEN 1 ELSE -1

\* The value calc_lig_end returned
x_ac == result[1][1]
rot_ac == result[1][2]
returned == vecs_rots[1]

\* C1: calc_lig_end returns a (displacement, rotation) pair if and only if
\* lig_type is one of RR, RL, LR, LL and 0 <= theta <= 90, both bounds
\* included; on every other input it ends with ValueError and no result.
\* A call that has not ended can always take its next step.
C1_ReturnsIffValid ==
    entry = "calc_lig_end" =>
        /\ ~Terminal => CanStep
        /\ pc = "done" =>
              /\ lig_type \in {"RR", "RL", "LR", "LL"}
              /\ 0 <= theta /\ theta <= 90 * DegUnit
              /\ result # None /\ Len(result[1]) = 2
              /\ error = None
        /\ pc = "raised" =>
              /\ ~(/\ lig_type \in {"RR", "RL", "LR", "LL"}
                   /\ 0 <= theta /\ theta <= 90 * DegUnit)
              /\ result = None
              /\ error # None /\ error[1].type = "ValueError"

C1_Witness ==
    /\ entry = "calc_lig_end"
    /\ pc = "raised"
    /\ lig_type = "RL"
    /\ theta = 90 * DegUnit + 1
    /\ error = Some(ValueError("theta", "calc_lig_end"))
    /\ result = None

\* C2 as stated: for every ligand type and theta in {0, 45, 90} the
\* displacement returned by calc_lig_end has squared magnitude 4.
C2_MagnitudeTwo ==
    (/\ entry = "calc_lig_end"
     /\ pc = "done"
     /\ theta \in {0, 45 * DegUnit, 90 * DegUnit})
        => NormSq(x_ac) = FromInt(4)

\* C2 amended: for every ligand type and theta in {0, 45, 90} the
\* displacement returned by calc_lig_end has squared magnitude exactly 3
\* (magnitude sqrt 3: two unit segments meeting at 60 degrees off the
\* straight line).
C2_MagnitudeSqrt3 ==
    (/\ entry = "calc_lig_end"
     /\ pc = "done"
     /\ theta \in {0, 45 * DegUnit, 90 * DegUnit})
        => NormSq(x_ac) = FromInt(3)

C2_Witness ==
    /\ entry = "calc_lig_end"
    /\ pc = "done"
    /\ lig_type = "LR"
    /\ theta = 45 * DegUnit
    /\ NormSq(x_ac) = FromInt(3)

\* C3: lig_type_to_signs returns RR -> (+1,+1), RL -> (+1,-1),
\* LR -> (-1,+1), LL -> (-1,-1), returns on each of the four, and raises
\* ValueError instead of returning a pair on any other argument.
C3_SignsTable ==
    entry = "lig_type_to_signs" =>
        /\ ~Terminal => CanStep
        /\ pc = "done" =>
              /\ lig_type \in {"RR", "RL", "LR", "LL"}
              /\ lig_type = "RR" => signs = Some(<<1, 1>>)
              /\ lig_type = "RL" => signs = Some(<<1, -1>>)
              /\ lig_type = "LR" => signs = Some(<<-1, 1>>)
              /\ lig_type = "LL" => signs = Some(<<-1, -1>>)
              /\ error = None
        /\ pc = "raised" =>
              /\ lig_type \notin {"RR", "RL", "LR", "LL"}
              /\ signs = None
              /\ error # None /\ error[1].type = "ValueError"

C3_Witness ==
    /\ entry = "lig_type_to_signs"
    /\ pc = "done"
    /\ lig_type = "LR"
    /\ signs = Some(<<-1, 1>>)

\* C4: for every valid input the displacement calc_lig_end returns is
\* x_ab_in_system_a + x_bc_in_system_a and the rotation is rot_ab1, then
\* rot_b1b2, then rot_b2c1, then rot_c1c2 composed left to right (so that
\* rot_c1c2 acts first on a vector), of the dictionary
\* calc_inner_vecs_and_rots returned for that input.
C4_ResultFromInner ==
    (entry = "calc_lig_end" /\ pc = "done") =>
        /\ calls = <<"calc_inner_vecs_and_rots", "lig_type_to_signs">>
        /\ returned = calc_inner_vecs_and_rots(
                          lig_type, theta, <<FirstSign(lig_type), SecondSign(lig_type)>>)
        /\ \A i \in 1..3 :
              x_ac[i] = Add(returned.x_ab_in_system_a[i], returned.x_bc_in_system_a[i])
        /\ \A v \in {UnitX, UnitY, UnitZ} :
              RotApply(rot_ac, v) =
                  RotApply(returned.rot_ab1,
                      RotApply(returned.rot_b1b2,
                          RotApply(returned.rot_b2c1,
                              RotApply(returned.rot_c1c2, v))))

C4_Witness ==
    /\ entry = "calc_lig_end"
    /\ pc = "done"
    /\ lig_type = "RL"
    /\ theta = 30 * DegUnit
    /\ rot_ac # Identity
    /\ RotApply(rot_ac, UnitY) =
           RotApply(returned.rot_ab1, RotApply(returned.rot_b1b2,
               RotApply(returned.rot_b2c1, RotApply(returned.rot_c1c2, UnitY))))

\* The four sub-rotations composed in the reversed order
ReversedOrder(vr) ==
    RotMul(RotMul(RotMul(vr.rot_c1c2, vr.rot_b2c1), vr.rot_b1b2), vr.rot_ab1)

\* C5: there is a ligand type and a theta in (0, 90] for which the four
\* sub-rotations composed in the reversed order give a rotation different
\* from the one calc_lig_end returns.  Checked in the stronger form: after
\* every call that returns with theta # 0, whatever the ligand type, the
\* reversed composition differs from the returned rotation.
C5_OrderMatters ==
    (entry = "calc_lig_end" /\ pc = "done" /\ theta # 0) =>
        /\ 0 < theta /\ theta <= 90 * DegUnit
        /\ ReversedOrder(returned) # rot_ac

C5_Witness ==
    /\ entry = "calc_lig_end"
    /\ pc = "done"
    /\ lig_type = "RL"
    /\ theta = 45 * DegUnit
    /\ ReversedOrder(returned) # rot_ac

\* The rows a sweep over 0, 1, ..., n - 1 writes
IsSweepOf(csv, n) ==
    /\ csv.header = <<"theta", "rsu">>
    /\ Len(csv.rows) = n
    /\ \A i \in 1..n : csv.rows[i][1] = i - 1
    /\ \A i \in 1..n :
          csv.rows[i][2] = calc_rsu(CONF_ID_OF_RING, i - 1, 103)
    /\ \A i \in 1..(n - 1) : csv.rows[i][1] < csv.rows[i + 1][1]

\* C6: the sweep calls calc_rsu once for each theta = 0, 1, ..., 90, in
\* that order, with the fixed conformation and delta = 103; every theta
\* passed lies in [0, 90]; the file written has exactly 91 (theta, rsu) rows
\* whose theta column is 0..90, strictly increasing.
C6_SweepRows ==
    entry = "syns1_delta103" =>
        /\ Len(script.rsu_calls) <= 91
        /\ \A i \in 1..Len(script.rsu_calls) :
              /\ script.rsu_calls[i] = <<CONF_ID_OF_RING, i - 1, 103>>
              /\ 0 <= script.rsu_calls[i][2] /\ script.rsu_calls[i][2] <= 90
        /\ script.df # None => Len(script.rsu_calls) = 91
        /\ pc = "done" =>
              /\ script.csv # None
              /\ IsSweepOf(script.csv[1], 91)
              /\ Len(script.rsu_calls) = 91

C6_Witness ==
    /\ entry = "syns1_delta103"
    /\ pc = "done"
    /\ Len(script.csv[1].rows) = 91
    /\ script.csv[1].rows[91][1] = 90
    /\ script.rsu_calls[91] = <<CONF_ID_OF_RING, 90, 103>>

RLRLRL == <<"R", "L", "R", "L", "R", "L">>

\* C7: stripping the brackets of "RL(FF)RL(FF)RL(FF)" yields "RLRLRL", a
\* stream of exactly three 2-character tokens each in {RR, RL, LR, LL};
\* that string is what is passed to the metal-position reconstruction with
\* theta = 0 and delta = 87, and exactly 3 metal positions are returned.
C7_StrippedIsRLRLRL ==
    entry = "synt1_theta0" =>
        /\ script.conf_id_without_brackets # None =>
              /\ script.conf_id_without_brackets[1] = RLRLRL
              /\ Tokens(script.conf_id_without_brackets[1]) # None
              /\ Len(Tokens(script.conf_id_without_brackets[1])[1]) = 3
              /\ \A i \in 1..3 :
                    Tokens(script.conf_id_without_brackets[1])[1][i] \in LigTokens
        /\ script.metal_args # None =>
              /\ script.metal_args[1] = <<RLRLRL, 0, 87>>
              /\ script.metal_positions # None
              /\ Len(script.metal_positions[1]) = 3

\* C8: rot_c1c2 returned by calc_inner_vecs_and_rots is the half turn about
\* the x axis exactly when lig_type is RR or LL (the two signs are equal) and
\* the identity exactly when lig_type is RL or LR, whatever theta is.
C8_HalfTurnIffSameHanded ==
    vecs_rots # None =>
        /\ returned.rot_c1c2 \in {HalfTurnAboutX, Identity}
        /\ returned.rot_c1c2 = HalfTurnAboutX <=> lig_type \in {"RR", "LL"}
        /\ returned.rot_c1c2 = HalfTurnAboutX <=> signs[1][1] = signs[1][2]
        /\ returned.rot_c1c2 = Identity <=> lig_type \in {"RL", "LR"}

C8_Witness ==
    /\ entry = "calc_inner_vecs_and_rots"
    /\ pc = "done"
    /\ lig_type = "LL"
    /\ theta = 45 * DegUnit
    /\ returned.rot_c1c2 = HalfTurnAboutX

\* The matrix of the rotation about x whose cosine and sine are c and s
AboutX(c, s) == <<UnitX, <<Zero, c, Neg(s)>>, <<Zero, s, c>> >>
\* The matrix of the rotation about z whose cosine and sine are c and s
AboutZ(c, s) == << <<c, Neg(s), Zero>>, <<s, c, Zero>>, UnitZ>>

\* C9: with (j, k) the signs of the ligand type, calc_inner_vecs_and_rots
\* returns rot_ab1 = the rotation about x by j*theta, rot_b1b2 = the rotation
\* about z by j*60, rot_b2c1 = the rotation about x by k*theta,
\* x_ab_in_system_a = (1,0,0) and x_bc_in_system_a = (rot_ab1 * rot_b1b2)
\* applied to (1,0,0), which is (1/2, j*(sqrt3/2)*cos theta,
\* (sqrt3/2)*sin theta): the displacement depends on j and theta, not on k.
C9_InnerRotations ==
    vecs_rots # None =>
        LET j == FirstSign(lig_type)
            k == SecondSign(lig_type)
        IN /\ signs = Some(<<j, k>>)
           /\ returned.rot_ab1 = AboutX(Cos(theta), Times(j, Sin(theta)))
           /\ returned.rot_b1b2 = AboutZ(Half, Times(j, HalfSqrt3))
           /\ returned.rot_b2c1 = AboutX(Cos(theta), Times(k, Sin(theta)))
           /\ returned.x_ab_in_system_a = UnitX
           /\ returned.x_bc_in_system_a =
                  RotApply(returned.rot_ab1, RotApply(returned.rot_b1b2, UnitX))
           /\ returned.x_bc_in_system_a =
                  <<Half, Times(j, Mul(HalfSqrt3, Cos(theta))),
                    Mul(HalfSqrt3, Sin(theta))>>

C9_Witness ==
    /\ entry = "calc_inner_vecs_and_rots"
    /\ pc = "done"
    /\ lig_type = "LR"
    /\ theta = 30 * DegUnit
    /\ returned.rot_ab1 = AboutX(HalfSqrt3, Neg(Half))
    /\ returned.rot_b2c1 = AboutX(HalfSqrt3, Half)

\* C10: calc_lig_end checks the ligand symbol, then theta, before anything
\* is computed: a call that raises has invoked neither
\* calc_inner_vecs_and_rots nor lig_type_to_signs and holds no vector or
\* rotation; the raise of lig_type_to_signs is never reached through
\* calc_lig_end; when both arguments are invalid the error is the one for
\* the ligand symbol.
C10_FailFast ==
    entry = "calc_lig_end" =>
        /\ calls # <<>> =>
              /\ lig_type \in {"RR", "RL", "LR", "LL"}
              /\ 0 <= theta /\ theta <= 90 * DegUnit
        /\ pc = "raised" =>
              /\ calls = <<>>
              /\ signs = None /\ vecs_rots = None /\ result = None
              /\ error[1].in = "calc_lig_end"
              /\ lig_type \notin {"RR", "RL", "LR", "LL"} => error[1].what = "lig_type"
              /\ lig_type \in {"RR", "RL", "LR", "LL"} => error[1].what = "theta"
        /\ error # None => error[1].in # "lig_type_to_signs"

C10_Witness ==
    /\ entry = "calc_lig_end"
    /\ pc = "raised"
    /\ lig_type = "FF"
    /\ theta = 90 * DegUnit + 1
    /\ error = Some(ValueError("lig_type", "calc_lig_end"))
    /\ calls = <<>>

====
